---- MODULE Spec2Model ----
(***************************************************************************)
(* Sequential Neural Likelihood (sbi/inference/snl/snl.py).                *)
(*                                                                         *)
(* Three specifications share the variables below:                         *)
(*   Spec          SNL.__call__ on a freshly constructed SNL object, with  *)
(*                 _fit_likelihood called with its default arguments;      *)
(*   SpecFit       one direct call of SNL._fit_likelihood with arguments   *)
(*                 drawn from bounded sets (SpecFitFair: the same, run to  *)
(*                 completion);                                            *)
(*   SpecProvider  a PotentialFunctionProvider that is invoked and whose   *)
(*                 returned potential functions are evaluated.             *)
(*                                                                         *)
(* Encodings.  A density estimator's learnable parameters (its state_dict) *)
(* are an abstract value in Params.  A Python float is an integer, with    *)
(* NaN and NegInf as two extra values that FloatGt compares as IEEE does.  *)
(* validation_fraction is held as a numerator over FractionDenominator.    *)
(* A bank entry is a record that stands for one tensor: n is its first     *)
(* dimension, call and round say which round of which run appended it.     *)
(***************************************************************************)
EXTENDS Integers, Sequences, FiniteSets, TLC

\* ------------------------------------------------------------------ bounds
MaxRounds == 2
SmallSims == 1
LargeSims == 1000
MaxEpochs == 22
MaxParam == 4
MaxExamples == 4
MaxFraction == 3
MaxBatch == 2
MaxStop == 2
MaxEstimator == 2
MaxTheta == 3

\* ------------------------------------------------------- program constants
DefaultBatchSize == 100
DefaultValidationFraction == 1
DefaultStopAfterEpochs == 20
FractionDenominator == 10
BestInit == -100

\* ------------------------------------------------------------------ floats
NegInf == BestInit - 1
NaN == BestInit - 2

\* Python's a > b on floats: False whenever an operand is NaN.
FloatGtGe(a, b) == a # NaN /\ b # NaN /\ a >= b
FloatGt(a, b) == a # NaN /\ b # NaN /\ a > b

Params == 0..MaxParam
None == -1

\* Mean validation log-probability of the estimator with parameters p, in
\* eval mode: a function of the parameters only.  Parameters 0 and 1 give a
\* non-finite score; 2k and 2k+1 tie.
LogProbOf(p) == IF p = 0 THEN NaN ELSE IF p = 1 THEN NegInf ELSE p \div 2

VARIABLES
    pc,                          \* position of the program
    error,                       \* the exception that propagated, or "none"
    calls,                       \* number of calls of __call__ so far
    num_rounds,
    num_simulations_per_round,
    round_,
    pending,                     \* (parameters, observations) just simulated
    parameter_bank,
    observation_bank,
    summary,
    neural_net,                  \* live parameters of the density estimator
    caller,                      \* who called _fit_likelihood
    batch_size,
    validation_fraction,
    stop_after_epochs,
    num_examples,
    num_training_examples,
    num_validation_examples,
    train_indices,               \* slice of permuted_indices, [from, to)
    val_indices,
    best_validation_log_prob,
    epochs_since_last_improvement,
    best_model_state_dict,
    epochs,
    hist,                        \* history of the current _fit_likelihood call
    provider,                    \* attributes of the PotentialFunctionProvider
    potential,                   \* the provider's last invocation: its arguments
                                 \* and what it returned
    held,                        \* a potential function a client kept from an
                                 \* earlier invocation
    results,                     \* last evaluation of each potential function
                                 \* under the current binding
    neural_posterior,            \* the object self._neural_posterior refers to
    returned                     \* what the last completed __call__ returned

runvars == <<calls, num_rounds, num_simulations_per_round, round_, pending,
             parameter_bank, observation_bank>>
argvars == <<caller, batch_size, validation_fraction, stop_after_epochs>>
splitvars == <<num_examples, num_training_examples, num_validation_examples,
               train_indices, val_indices>>
loopvars == <<best_validation_log_prob, epochs_since_last_improvement,
              best_model_state_dict, epochs>>
provvars == <<provider, potential, held, results>>
objvars == <<neural_posterior, returned>>
vars == <<pc, error, runvars, summary, neural_net, argvars, splitvars,
          loopvars, hist, provvars, objvars>>

\* ------------------------------------------------------------- SNL.__init__
\* permuted_indices[from:to], as the positions it takes of the permutation.
Slice(from, to) == [from |-> from, to |-> to]

NoPending == [src |-> "none", n |-> 0, weights |-> None]
NoHist == [max |-> NegInf, argmax |-> None, best_epoch |-> 0,
           last_net |-> None, steps |-> 0, evaluated |-> 0]
EmptySummary == [epochs |-> <<>>, best |-> <<>>, distances |-> <<>>]
\* A PotentialFunctionProvider() has no attribute until it is invoked.
Unset == 0
Unbound == [likelihood_nn |-> Unset, prior |-> Unset, observation |-> Unset]
NoPotential == [fn |-> "none", mcmc_method |-> "none", args |-> Unbound]
NoHeld == [fn |-> "none", created_with |-> Unbound]
NoResult == [theta |-> -1, value |-> 0]
NoResults == [np_potential |-> NoResult, pyro_potential |-> NoResult,
              held |-> NoResult]

\* lines 89-96: the Posterior is created around the density estimator that was
\* passed in or built; objects are told apart by a name.
NewPosterior == [object |-> "posterior", neural_net |-> "density_estimator"]
NotReturned == [object |-> "none", neural_net |-> "none"]

InitCommon ==
    /\ neural_posterior = NewPosterior
    /\ returned = NotReturned
    /\ error = "none"
    /\ pending = NoPending
    /\ summary = EmptySummary
    /\ neural_net \in Params
    /\ num_examples = 0
    /\ num_training_examples = 0
    /\ num_validation_examples = 0
    /\ train_indices = Slice(0, 0)
    /\ val_indices = Slice(0, 0)
    /\ best_validation_log_prob = BestInit
    /\ epochs_since_last_improvement = 0
    /\ best_model_state_dict = None
    /\ epochs = 0
    /\ hist = NoHist
    /\ provider = Unbound
    /\ potential = NoPotential
    /\ held = NoHeld
    /\ results = NoResults

Init ==
    /\ InitCommon
    /\ pc = "idle"
    /\ calls = 0
    /\ num_rounds = 0
    /\ num_simulations_per_round = 0
    /\ round_ = 0
    /\ parameter_bank = <<>>
    /\ observation_bank = <<>>
    /\ caller = "none"
    /\ batch_size = DefaultBatchSize
    /\ validation_fraction = DefaultValidationFraction
    /\ stop_after_epochs = DefaultStopAfterEpochs

\* ------------------------------------------------------------ SNL.__call__
Entry(src, n, weights) == [src |-> src, n |-> n, weights |-> weights]

\* torch.cat(bank).shape[0]
CatLenNewest(bank) == bank[Len(bank)].n
RECURSIVE CatLen(_)
CatLen(bank) == IF bank = <<>> THEN 0 ELSE Head(bank).n + CatLen(Tail(bank))

Last(s) == s[Len(s)]

\* line 139: range(num_rounds), as the sequence of the values it yields.
RangeFromOne(n) == [i \in 1..n |-> i]
Range(n) == [i \in 1..n |-> i - 1]

\* line 125: run(num_rounds, num_simulations_per_round) is entered.
Call ==
    /\ pc = "idle"
    /\ \E r \in 1..MaxRounds, n \in {SmallSims, LargeSims} :
          /\ Len(parameter_bank) + r <= MaxRounds
          /\ num_rounds' = r
          /\ num_simulations_per_round' = n
          /\ round_' = Range(r)[1]
    /\ calls' = calls + 1
    /\ pc' = "round"
    /\ UNCHANGED <<error, pending, parameter_bank, observation_bank, summary,
                   neural_net, argvars, splitvars, loopvars, hist, provvars, objvars>>

\* simulators.simulate_in_batches: num_samples parameters drawn by the given
\* sampling function, and one observation per parameter.
SimulateInBatches(src, num_samples, weights) == Entry(src, num_samples, weights)

\* line 145: the branch that picks the sampling function of round round_.
SamplesFromPriorLeq1(r) == r <= 1
SamplesFromPrior(r) == r = 0

\* lines 145-154: round 0 draws from the prior.
SamplePrior ==
    /\ pc = "round"
    /\ round_ < num_rounds
    /\ SamplesFromPrior(round_)
    /\ pending' = SimulateInBatches("prior", num_simulations_per_round, None)
    /\ pc' = "append"
    /\ UNCHANGED <<error, calls, num_rounds, num_simulations_per_round, round_,
                   parameter_bank, observation_bank, summary, neural_net,
                   argvars, splitvars, loopvars, hist, provvars, objvars>>

\* lines 155-164: later rounds draw from self._neural_posterior.sample, which
\* reads the live parameters of the density estimator.
SamplePosterior ==
    /\ pc = "round"
    /\ round_ < num_rounds
    /\ ~SamplesFromPrior(round_)
    /\ pending' = SimulateInBatches("posterior", num_simulations_per_round,
                                    neural_net)
    /\ pc' = "append"
    /\ UNCHANGED <<error, calls, num_rounds, num_simulations_per_round, round_,
                   parameter_bank, observation_bank, summary, neural_net,
                   argvars, splitvars, loopvars, hist, provvars, objvars>>

\* lines 139-192 and 257-304 hold no try statement: an exception raised at
\* the position at leaves __call__ and is not handled.
CaughtAndRetried(at) == at
Uncaught(at) == "raised"

\* lines 145-164: the simulator (or the sampler) raises; nothing catches it.
SimulateRaises ==
    /\ pc = "round"
    /\ round_ < num_rounds
    /\ error' = "SimulatorError"
    /\ pc' = Uncaught(pc)
    /\ UNCHANGED <<runvars, summary, neural_net, argvars, splitvars, loopvars,
                   hist, provvars, objvars>>

\* lines 167-168: list.append on each bank.
AppendParametersOverwrite(bank, e) == <<e>>
AppendParameters(bank, e) == Append(bank, e)
AppendObservationsSkip(bank, e) == IF bank = <<>> THEN <<e>> ELSE bank
AppendObservations(bank, e) == Append(bank, e)

\* line 167
StoreParameters ==
    /\ pc = "append"
    /\ parameter_bank' = AppendParameters(parameter_bank,
           [src |-> pending.src, n |-> pending.n, weights |-> pending.weights,
            call |-> calls, round |-> round_])
    /\ pc' = "append_observations"
    /\ UNCHANGED <<error, calls, num_rounds, num_simulations_per_round, round_,
                   pending, observation_bank, summary, neural_net, argvars,
                   splitvars, loopvars, hist, provvars, objvars>>

\* line 168
StoreObservations ==
    /\ pc = "append_observations"
    /\ observation_bank' = AppendObservations(observation_bank,
           [n |-> pending.n, call |-> calls, round |-> round_])
    /\ pending' = NoPending
    /\ pc' = "call_fit"
    /\ UNCHANGED <<error, calls, num_rounds, num_simulations_per_round, round_,
                   parameter_bank, summary, neural_net, argvars, splitvars,
                   loopvars, hist, provvars, objvars>>

\* line 171: self._fit_likelihood() with the defaults of lines 196-199.
CallFit ==
    /\ pc = "call_fit"
    /\ caller' = "run"
    /\ batch_size' = DefaultBatchSize
    /\ validation_fraction' = DefaultValidationFraction
    /\ stop_after_epochs' = DefaultStopAfterEpochs
    /\ pc' = "fit_setup"
    /\ UNCHANGED <<error, runvars, summary, neural_net, splitvars, loopvars,
                   hist, provvars, objvars>>

\* utils.summarize: appends this round's diagnostics to the summary it was
\* given and returns it.
Summarize(s) == [s EXCEPT !.distances = Append(@, Len(@) + 1)]

\* lines 174-191: the round's summary is recorded and the loop advances.
RecordRound ==
    /\ pc = "summarize"
    /\ summary' = Summarize(summary)
    /\ round_' = round_ + 1
    /\ pc' = "round"
    /\ UNCHANGED <<error, calls, num_rounds, num_simulations_per_round, pending,
                   parameter_bank, observation_bank, neural_net, argvars,
                   splitvars, loopvars, hist, provvars, objvars>>

\* line 192: the loop is exhausted and the posterior is returned.
Return ==
    /\ pc = "round"
    /\ round_ >= num_rounds
    /\ returned' = neural_posterior
    /\ pc' = "idle"
    /\ UNCHANGED <<error, runvars, summary, neural_net, argvars, splitvars,
                   loopvars, hist, provvars, neural_posterior>>

\* ------------------------------------------------------- SNL._fit_likelihood
Min(a, b) == IF a < b THEN a ELSE b

\* line 219: int((1 - validation_fraction) * num_examples); int() truncates.
NumTrainingCeil(f, n) ==
    ((FractionDenominator - f) * n + FractionDenominator - 1) \div FractionDenominator
NumTraining(f, n) == ((FractionDenominator - f) * n) \div FractionDenominator

\* line 240: the batch size handed to the validation DataLoader, whose
\* BatchSampler rejects a batch size that is not positive.
ValBatchSizeUnclamped(b, n, t) == b
ValBatchSize(b, n, t) == Min(b, n - t)

\* lines 232-237: drop_last = True keeps the complete batches only.
TrainBatchesKeepLast(t, b) == (t + b - 1) \div b
TrainBatches(t, b) == t \div b

\* lines 214-256 when both loaders are built.
FitSetup ==
    /\ pc = "fit_setup"
    /\ LET n == CatLen(parameter_bank)
           t == NumTraining(validation_fraction, n)
       IN  /\ ValBatchSize(batch_size, n, t) > 0
           /\ num_examples' = n
           /\ num_training_examples' = t
           /\ num_validation_examples' = n - t
           /\ train_indices' = Slice(0, t)
           /\ val_indices' = Slice(t, n)
    /\ best_validation_log_prob' = BestInit
    /\ epochs_since_last_improvement' = 0
    /\ best_model_state_dict' = None
    /\ epochs' = 0
    /\ hist' = NoHist
    /\ pc' = "fit_train"
    /\ UNCHANGED <<error, runvars, summary, neural_net, argvars, provvars, objvars>>

\* lines 214-244 when the validation loader cannot be built: DataLoader raises
\* ValueError for batch_size = 0, before the loop is entered.
FitSetupRaises ==
    /\ pc = "fit_setup"
    /\ LET n == CatLen(parameter_bank)
           t == NumTraining(validation_fraction, n)
       IN  /\ ValBatchSize(batch_size, n, t) <= 0
           /\ num_examples' = n
           /\ num_training_examples' = t
           /\ num_validation_examples' = n - t
           /\ train_indices' = Slice(0, t)
           /\ val_indices' = Slice(t, n)
    /\ hist' = NoHist
    /\ error' = "ValueError"
    /\ pc' = Uncaught(pc)
    /\ UNCHANGED <<runvars, summary, neural_net, argvars, loopvars, provvars, objvars>>

\* The exploration follows a call for as long as its stopping criterion can
\* still fire within MaxEpochs epochs.
WithinMaxEpochs ==
    (epochs - epochs_since_last_improvement) + stop_after_epochs <= MaxEpochs

\* lines 259-274: one pass over the training loader; every optimizer step
\* moves the parameters somewhere, no step leaves them where they are.
TrainEpoch ==
    /\ pc = "fit_train"
    /\ WithinMaxEpochs
    /\ LET steps == TrainBatches(num_training_examples, batch_size)
       IN  /\ neural_net' \in (IF steps > 0 THEN Params ELSE {neural_net})
           /\ hist' = [hist EXCEPT !.steps = steps, !.last_net = neural_net']
    /\ epochs' = epochs + 1
    /\ pc' = "fit_validate"
    /\ UNCHANGED <<error, runvars, summary, argvars, splitvars,
                   best_validation_log_prob, epochs_since_last_improvement,
                   best_model_state_dict, provvars, objvars>>

\* line 292
ImprovedOrTied(v, best) == FloatGtGe(v, best)
Improved(v, best) == FloatGt(v, best)

\* lines 294 and 299: the stall counter after an epoch.
SinceAfterStuck(better, since) == IF better THEN 0 ELSE since
SinceAfter(better, since) == IF better THEN 0 ELSE since + 1

\* line 295: deepcopy of the state_dict.
Deepcopy(sd) == sd

\* line 302
ShouldStopLate(since, stop) == since > stop
ShouldStopEarly(since, stop) == since > stop - 2
ShouldStop(since, stop) == since > stop - 1

\* line 303: load_state_dict replaces the live parameters by sd.
LoadStateDictKeep(live, sd) == live
LoadStateDict(live, sd) == sd

\* The history of the call: the greatest score seen so far (NegInf, the
\* supremum of no scores, while none is), and the parameters and the epoch of
\* the last score strictly greater than every score before it, which is the
\* first epoch to reach the greatest score.
HistAfter(h, v, net, e) ==
    LET strict == v # NaN /\ v > h.max
    IN  [h EXCEPT !.max = IF strict THEN v ELSE @,
                  !.argmax = IF strict THEN net ELSE @,
                  !.best_epoch = IF strict THEN e ELSE @,
                  !.evaluated = num_validation_examples]

\* lines 276-304: validation, the improvement check and the stopping check.
ValidateEpoch ==
    /\ pc = "fit_validate"
    /\ LET v == LogProbOf(neural_net)
           better == Improved(v, best_validation_log_prob)
           since == SinceAfter(better, epochs_since_last_improvement)
           sd == IF better THEN Deepcopy(neural_net) ELSE best_model_state_dict
       IN  /\ best_validation_log_prob' =
                  IF better THEN v ELSE best_validation_log_prob
           /\ epochs_since_last_improvement' = since
           /\ best_model_state_dict' = sd
           /\ hist' = HistAfter(hist, v, neural_net, epochs)
           /\ IF ~ShouldStop(since, stop_after_epochs)
              THEN /\ pc' = "fit_train"
                   /\ UNCHANGED <<neural_net, error>>
              ELSE IF sd = None
              THEN \* load_state_dict(None) raises
                   /\ pc' = Uncaught(pc)
                   /\ error' = "AttributeError"
                   /\ UNCHANGED neural_net
              ELSE /\ neural_net' = LoadStateDict(neural_net, sd)
                   /\ pc' = "fit_summary"
                   /\ UNCHANGED error
    /\ UNCHANGED <<runvars, summary, argvars, splitvars, epochs, provvars, objvars>>

\* lines 307-308: list.append on a metric of the summary.
AppendMetricOverwrite(metric, v) ==
    IF metric = <<>> THEN <<v>> ELSE [metric EXCEPT ![Len(metric)] = v]
AppendMetric(metric, v) == Append(metric, v)

\* lines 306-308, and the return to the caller.
UpdateSummary ==
    /\ pc = "fit_summary"
    /\ summary' = [summary EXCEPT
                      !.epochs = AppendMetric(@, epochs),
                      !.best = AppendMetric(@, best_validation_log_prob)]
    /\ pc' = IF caller = "run" THEN "summarize" ELSE "fit_returned"
    /\ UNCHANGED <<error, runvars, neural_net, argvars, splitvars, loopvars,
                   hist, provvars, objvars>>

\* FitSetupRaises is no step of a run: with the default validation_fraction
\* the validation split of a bank that holds an example is never empty.
Next ==
    \/ Call
    \/ SamplePrior
    \/ SamplePosterior
    \/ SimulateRaises
    \/ StoreParameters
    \/ StoreObservations
    \/ CallFit
    \/ FitSetup
    \/ TrainEpoch
    \/ ValidateEpoch
    \/ UpdateSummary
    \/ RecordRound
    \/ Return

Spec == Init /\ [][Next]_vars

\* --------------------------------------- a direct call of _fit_likelihood
\* The object is as Store leaves it in round 0 of its first run, with n pairs
\* in the bank, and _fit_likelihood is entered with explicit arguments.
ExampleCounts == (1..MaxExamples) \cup {LargeSims}
BatchSizes == (1..MaxBatch) \cup {DefaultBatchSize}

InitFit ==
    /\ InitCommon
    /\ pc = "fit_setup"
    /\ caller = "direct"
    /\ calls = 1
    /\ num_rounds = 1
    /\ round_ = 0
    /\ \E n \in ExampleCounts :
          /\ num_simulations_per_round = n
          /\ parameter_bank = <<[src |-> "prior", n |-> n, weights |-> None,
                                 call |-> 1, round |-> 0]>>
          /\ observation_bank = <<[n |-> n, call |-> 1, round |-> 0]>>
    /\ batch_size \in BatchSizes
    /\ validation_fraction \in 0..MaxFraction
    /\ stop_after_epochs \in 1..MaxStop

NextFit ==
    \/ FitSetup
    \/ FitSetupRaises
    \/ TrainEpoch
    \/ ValidateEpoch
    \/ UpdateSummary

SpecFit == InitFit /\ [][NextFit]_vars

\* _fit_likelihood runs to completion once entered: nothing else is scheduled.
SpecFitFair == SpecFit /\ WF_vars(NextFit)

\* ------------------------------------------------ PotentialFunctionProvider
Estimators == 1..MaxEstimator
Priors == 1..2
Observations == 1..2
McmcMethods == {"slice-np", "slice", "hmc", "nuts", "rejection"}

\* A numpy parameter vector is a number of 0..MaxTheta; the even ones are the
\* values a float32 tensor can hold.
Vectors == 0..MaxTheta
Tensors == {t \in Vectors : t % 2 = 0}

\* line 372: torch.FloatTensor(parameters) rounds to float32.
FloatTensor(v) == 2 * (v \div 2)

FloatAdd(a, b) ==
    IF a = NaN \/ b = NaN THEN NaN
    ELSE IF a = NegInf \/ b = NegInf THEN NegInf
    ELSE a + b
FloatNeg(a) == IF a = NaN THEN NaN ELSE 0 - a

\* likelihood_nn.log_prob(inputs = observation, context = theta)
LikelihoodLogProb(nn, x, theta) == 0 - nn * (x - theta) * (x - theta)

\* prior.log_prob(theta): prior 1 is flat on theta <= 2 and impossible above,
\* prior 2 falls off linearly.
PriorLogProb(pr, theta) ==
    IF pr = 1 THEN (IF theta <= 2 THEN 0 ELSE NegInf) ELSE 0 - theta

\* line 358
IsPyroMethodNoSlice(m) == m \in {"hmc", "nuts"}
IsPyroMethod(m) == m \in {"slice", "hmc", "nuts"}

\* lines 354-356: the three attributes of self are assigned.
BindKeepObservation(self, pr, nn, x) ==
    [self EXCEPT !.likelihood_nn = nn, !.prior = pr]
Bind(self, pr, nn, x) ==
    [likelihood_nn |-> nn, prior |-> pr, observation |-> x]

\* lines 359, 361: the value returned is a method bound to the provider, so
\* the self it is later called with is the provider as it is at that time.
SelfOfAtCreation(h) == h.created_with
SelfOf(h) == provider

\* lines 330-361: the three attributes are set, then the method is picked.
Invoke ==
    /\ \E pr \in Priors, nn \in Estimators, x \in Observations,
          m \in McmcMethods :
          /\ provider' = Bind(provider, pr, nn, x)
          /\ potential' = [fn |-> IF IsPyroMethod(m) THEN "pyro_potential"
                                  ELSE "np_potential",
                           mcmc_method |-> m,
                           args |-> [likelihood_nn |-> nn, prior |-> pr,
                                     observation |-> x]]
          /\ results' = IF provider' = provider THEN results ELSE NoResults
    /\ UNCHANGED <<pc, error, runvars, summary, neural_net, argvars, splitvars,
                   loopvars, hist, objvars>>

\* An invocation by a sampler, which uses the potential function at once.
ProviderCall == Invoke /\ UNCHANGED held

\* An invocation by a client that may have kept the potential function of an
\* earlier invocation.
ProviderCallAgain ==
    /\ Invoke
    /\ held' \in {held} \cup
                 (IF potential = NoPotential THEN {}
                  ELSE {[fn |-> potential.fn, created_with |-> provider]})

\* lines 363-378
NpPotentialNegated(self, parameters) ==
    LET theta == FloatTensor(parameters)
    IN  FloatNeg(FloatAdd(LikelihoodLogProb(self.likelihood_nn, self.observation, theta),
                          PriorLogProb(self.prior, theta)))
NpPotential(self, parameters) ==
    LET theta == FloatTensor(parameters)
    IN  FloatAdd(LikelihoodLogProb(self.likelihood_nn, self.observation, theta),
                 PriorLogProb(self.prior, theta))

\* line 390: next(iter(parameters.values())), the value of the first site; a
\* dict is the sequence of its (name, tensor) items.
FirstValue(parameters) == parameters[1][2]

\* lines 380-396
PyroPotentialUnnegated(self, parameters) ==
    LET parameter == FirstValue(parameters)
    IN  FloatAdd(LikelihoodLogProb(self.likelihood_nn, self.observation, parameter),
                 PriorLogProb(self.prior, parameter))
PyroPotential(self, parameters) ==
    LET parameter == FirstValue(parameters)
    IN  FloatNeg(FloatAdd(LikelihoodLogProb(self.likelihood_nn, self.observation, parameter),
                          PriorLogProb(self.prior, parameter)))

\* The sampler evaluates the flat-array potential it was given.
EvaluateNp ==
    /\ potential.fn = "np_potential"
    /\ \E v \in Vectors :
          results' = [results EXCEPT !.np_potential =
                         [theta |-> v,
                          value |-> NpPotential(provider, v)]]
    /\ UNCHANGED <<pc, error, runvars, summary, neural_net, argvars, splitvars,
                   loopvars, hist, provider, potential, held, objvars>>

\* The sampler evaluates the structured-input potential it was given, on a
\* dict with one site.
EvaluatePyro ==
    /\ potential.fn = "pyro_potential"
    /\ \E t \in Tensors :
          results' = [results EXCEPT !.pyro_potential =
                         [theta |-> t,
                          value |-> PyroPotential(provider, <<<<"theta", t>>>>)]]
    /\ UNCHANGED <<pc, error, runvars, summary, neural_net, argvars, splitvars,
                   loopvars, hist, provider, potential, held, objvars>>

\* The client evaluates the potential function it kept.
EvaluateHeld ==
    /\ held # NoHeld
    /\ \E t \in Tensors :
          results' = [results EXCEPT !.held =
                         [theta |-> t,
                          fn |-> held.fn,
                          value |-> IF held.fn = "np_potential"
                                    THEN NpPotential(SelfOf(held), t)
                                    ELSE PyroPotential(SelfOf(held),
                                                       <<<<"theta", t>>>>)]]
    /\ UNCHANGED <<pc, error, runvars, summary, neural_net, argvars, splitvars,
                   loopvars, hist, provider, potential, held, objvars>>

NextProvider ==
    \/ ProviderCall
    \/ EvaluateNp
    \/ EvaluatePyro

SpecProvider == Init /\ [][NextProvider]_vars

NextReuse ==
    \/ ProviderCallAgain
    \/ EvaluateHeld

SpecReuse == Init /\ [][NextReuse]_vars

\* ------------------------------------------------------------------ claims
FitExited == pc \in {"fit_summary", "fit_returned", "summarize"}
FitReturned == pc \in {"fit_returned", "summarize"}

\* C1: training halts exactly stop_after_epochs epochs after the last strict
\* improvement: while the loop goes on, fewer than stop_after_epochs epochs
\* have passed since it; when the loop exits, exactly stop_after_epochs have,
\* and that epoch count is the one recorded in the summary.
C1_HaltsExactly ==
    /\ pc = "fit_train" => epochs < hist.best_epoch + stop_after_epochs
    /\ pc = "fit_validate" => epochs <= hist.best_epoch + stop_after_epochs
    /\ FitExited => epochs = hist.best_epoch + stop_after_epochs
    /\ FitReturned =>
          Last(summary.epochs) = hist.best_epoch + stop_after_epochs

C1_Witness ==
    /\ pc = "fit_returned"
    /\ stop_after_epochs > 1
    /\ hist.best_epoch > 2
    /\ Last(summary.epochs) = hist.best_epoch + stop_after_epochs

\* C2: when fit returns, the live parameters are the ones snapshotted at the
\* best-validation epoch (the earliest epoch with the greatest score of the
\* call), and the best score recorded in the summary is their score.
C2_RestoresBest ==
    /\ FitExited =>
          /\ neural_net = hist.argmax
          /\ best_validation_log_prob = hist.max
    /\ FitReturned =>
          /\ Last(summary.best) = hist.max
          /\ Last(summary.best) = LogProbOf(neural_net)

C2_Witness ==
    /\ pc = "fit_returned"
    /\ neural_net = hist.argmax
    /\ neural_net # hist.last_net
    /\ LogProbOf(hist.last_net) # NaN
    /\ hist.best_epoch > 1
    /\ Last(summary.best) = LogProbOf(neural_net)

\* Entries of bank that the current run appended.
OfThisRun(bank) == {i \in 1..Len(bank) : bank[i].call = calls}

\* C3: after every completed round the two banks hold the same number of
\* entries, entry i of one has as many examples as entry i of the other, and
\* each entry of this run holds num_simulations_per_round examples.
C3_BanksAligned ==
    pc \in {"round", "idle"} =>
        /\ Len(parameter_bank) = Len(observation_bank)
        /\ \A i \in 1..Len(parameter_bank) :
              parameter_bank[i].n = observation_bank[i].n
        /\ \A i \in OfThisRun(parameter_bank) :
              /\ parameter_bank[i].n = num_simulations_per_round
              /\ observation_bank[i].n = num_simulations_per_round

C3_Witness ==
    /\ pc = "round"
    /\ round_ = 2
    /\ Len(parameter_bank) = 2
    /\ Len(observation_bank) = 2
    /\ observation_bank[2].n = LargeSims

\* C4: within one run the parameters of round 0 come from the prior and those
\* of every later round from the posterior's sample method.
C4_SourceSwitch ==
    /\ \A i \in 1..Len(parameter_bank) :
          parameter_bank[i].src =
              IF parameter_bank[i].round = 0 THEN "prior" ELSE "posterior"
    /\ pc \in {"append", "append_observations"} =>
          pending.src = IF round_ = 0 THEN "prior" ELSE "posterior"

C4_Witness ==
    /\ Len(parameter_bank) = 2
    /\ parameter_bank[1].call = parameter_bank[2].call
    /\ parameter_bank[1].src = "prior"
    /\ parameter_bank[2].src = "posterior"
    /\ parameter_bank[2].round = 1

\* (1 - validation_fraction) * n rounded to the nearest integer, halves to the
\* even one, as Python's round does.
Round(f, n) ==
    LET a == (FractionDenominator - f) * n
        q == a \div FractionDenominator
        r == a % FractionDenominator
    IN  IF 2 * r < FractionDenominator THEN q
        ELSE IF 2 * r > FractionDenominator THEN q + 1
        ELSE IF q % 2 = 0 THEN q ELSE q + 1

SplitDone == pc \notin {"fit_setup", "idle", "round", "append",
                        "append_observations", "call_fit"}

\* C5 as stated: the training split takes round((1 - f) * N) indices.
C5_Original ==
    SplitDone =>
        num_training_examples = Round(validation_fraction, num_examples)

\* C5, amended: the training split is the first floor((1 - f) * N) indices of
\* the permutation and the validation split the remaining ones; N = 1000 and
\* f = 0.1 give 900 and 100.
C5_SplitSizes ==
    SplitDone =>
        /\ num_examples = CatLen(parameter_bank)
        /\ num_training_examples * FractionDenominator
              <= (FractionDenominator - validation_fraction) * num_examples
        /\ (FractionDenominator - validation_fraction) * num_examples
              < (num_training_examples + 1) * FractionDenominator
        /\ num_validation_examples = num_examples - num_training_examples
        /\ train_indices = Slice(0, num_training_examples)
        /\ val_indices = Slice(num_training_examples, num_examples)
        /\ (num_examples = 1000 /\ validation_fraction = 1) =>
              (num_training_examples = 900 /\ num_validation_examples = 100)

C5_Witness ==
    /\ pc = "fit_train"
    /\ num_examples = 2
    /\ validation_fraction = 1
    /\ num_training_examples = 1
    /\ num_validation_examples = 1
    /\ Round(validation_fraction, num_examples) = 2

\* fit has failed before any epoch.
FailedAtSetup ==
    /\ pc = "raised"
    /\ epochs = 0
    /\ hist = NoHist

\* A step that makes fit fail leaves estimator and summary as they were.
FailureTouchesNothing ==
    (pc # "raised" /\ pc' = "raised") =>
        (neural_net' = neural_net /\ summary' = summary)

\* C6 as stated: fit fails untouched whenever validation_fraction * N < 1.
C6_Original ==
    (SplitDone /\ validation_fraction * num_examples < FractionDenominator)
        => FailedAtSetup

\* C6, amended: fit fails before any epoch, with estimator and summary
\* untouched, exactly when the validation split is empty (N - int((1 - f) * N)
\* = 0); the error is the ValueError of the validation DataLoader.  It trains
\* only with at least one validation example.
C6_EmptySplitFails ==
    /\ []((SplitDone /\ num_validation_examples = 0) =>
             (FailedAtSetup /\ error = "ValueError"))
    /\ []((SplitDone /\ num_validation_examples > 0) => error # "ValueError")
    /\ []((pc \in {"fit_train", "fit_validate"} \/ epochs > 0) =>
             num_validation_examples >= 1)
    /\ [][FailureTouchesNothing]_vars

C6_Witness ==
    /\ FailedAtSetup
    /\ summary = EmptySummary
    /\ error = "ValueError"
    /\ num_validation_examples = 0
    /\ num_examples > 1
    /\ num_training_examples = num_examples

\* C7: every call of fit ends after finitely many epochs: the stopping
\* criterion fires and fit returns or raises.
C7_Terminates == <>(pc \in {"fit_returned", "raised"})

C7_Witness ==
    /\ pc = "fit_returned"
    /\ epochs > 2 * stop_after_epochs
    /\ hist.steps > 0

\* C10: the bank is strictly cumulative: it starts empty, no step removes or
\* changes an entry, a step adds at most one entry at the end, and after r
\* rounds of a run each bank holds r entries of that run.
Extends(old, new) ==
    /\ Len(new) \in {Len(old), Len(old) + 1}
    /\ \A i \in 1..Len(old) : new[i] = old[i]

C10_Cumulative ==
    /\ parameter_bank = <<>> /\ observation_bank = <<>>
    /\ [](pc = "round" =>
            /\ Cardinality(OfThisRun(parameter_bank)) = round_
            /\ Cardinality(OfThisRun(observation_bank)) = round_)
    /\ [][/\ Extends(parameter_bank, parameter_bank')
          /\ Extends(observation_bank, observation_bank')]_vars

C10_Witness ==
    /\ pc = "fit_validate"
    /\ epochs > 1
    /\ Len(parameter_bank) = 2
    /\ Len(observation_bank) = 2
    /\ parameter_bank[1].call # parameter_bank[2].call

\* C8: the provider returns the structured-input potential exactly for the
\* methods slice, hmc and nuts and the flat-array potential for every other
\* method name, recognized or not, and raises nothing.
C8_Dispatch ==
    potential # NoPotential =>
        /\ potential.mcmc_method \in {"slice", "hmc", "nuts"}
              => potential.fn = "pyro_potential"
        /\ potential.mcmc_method \notin {"slice", "hmc", "nuts"}
              => potential.fn = "np_potential"
        /\ error = "none"

C8_Witness ==
    /\ potential.mcmc_method \notin {"slice-np", "slice", "hmc", "nuts"}
    /\ potential.fn = "np_potential"
    /\ error = "none"

\* asVector(p): the numpy vector of a tensor's values.
AsVector(t) == t

\* log likelihood(observation | p) + log prior(p) under a binding.
LogPosterior(b, p) ==
    FloatAdd(LikelihoodLogProb(b.likelihood_nn, b.observation, p),
             PriorLogProb(b.prior, p))

\* C9: under one binding, the structured-input potential of {site: p} is the
\* negation of the flat-array potential of p as a vector: the first returns
\* -(log likelihood + log prior), the second +(log likelihood + log prior).
C9_OppositeSigns ==
    LET s == results.pyro_potential
        f == results.np_potential
    IN  /\ s # NoResult => s.value = FloatNeg(LogPosterior(provider, s.theta))
        /\ (f # NoResult /\ f.theta \in Tensors) =>
              f.value = LogPosterior(provider, f.theta)
        /\ (s # NoResult /\ f # NoResult /\ f.theta = AsVector(s.theta)) =>
              s.value = FloatNeg(f.value)

C9_Witness ==
    LET s == results.pyro_potential
        f == results.np_potential
    IN  /\ s # NoResult /\ f # NoResult
        /\ f.theta = AsVector(s.theta)
        /\ f.value < 0 /\ f.value # NegInf
        /\ s.value = 0 - f.value

\* C11: the summary is append-only: a step adds at most one value to a metric
\* and changes no recorded value, and at every round boundary each of epochs
\* and best-validation-log-probs holds one value per completed round.
C11_SummaryAppendOnly ==
    /\ [](pc \in {"round", "idle"} =>
            /\ Len(summary.epochs) = Len(parameter_bank)
            /\ Len(summary.best) = Len(parameter_bank)
            /\ Len(summary.distances) = Len(parameter_bank))
    /\ [][/\ Extends(summary.epochs, summary.epochs')
          /\ Extends(summary.best, summary.best')
          /\ Extends(summary.distances, summary.distances')]_vars

C11_Witness ==
    /\ pc = "round"
    /\ Len(summary.epochs) = 2
    /\ Len(summary.best) = 2
    /\ summary.epochs[1] # summary.epochs[2]
    /\ summary.best[1] # summary.best[2]

\* C12: a provider that was never invoked holds none of likelihood_nn, prior,
\* observation; once invoked, the three attributes are the arguments of the
\* most recent invocation.
C12_BoundToLastCall ==
    /\ potential = NoPotential => provider = Unbound
    /\ potential # NoPotential =>
          /\ provider = potential.args
          /\ provider.likelihood_nn \in Estimators
          /\ provider.prior \in Priors
          /\ provider.observation \in Observations

\* A second invocation with three different arguments has replaced the first.
C12_Witness ==
    /\ held # NoHeld
    /\ held.created_with.likelihood_nn # provider.likelihood_nn
    /\ held.created_with.prior # provider.prior
    /\ held.created_with.observation # provider.observation
    /\ provider = potential.args

\* What a potential function of the given variant returns for the tensor t
\* when it reads the binding b.
ValueUnder(fn, b, t) ==
    IF fn = "np_potential" THEN LogPosterior(b, t)
    ELSE FloatNeg(LogPosterior(b, t))

\* C20: a potential function kept from an earlier invocation evaluates against
\* the binding of the most recent invocation of its provider, whatever the
\* binding it was created with, and so do both variants.
C20_ReadsLatestBinding ==
    results.held # NoResult =>
        /\ provider = potential.args
        /\ results.held.value =
              ValueUnder(results.held.fn, provider, results.held.theta)

\* The kept function was created under another binding, under which it would
\* have returned another value.
C20_Witness ==
    /\ results.held # NoResult
    /\ results.held.fn = held.fn
    /\ held.created_with # provider
    /\ results.held.value #
          ValueUnder(held.fn, held.created_with, results.held.theta)

\* The state between two epochs of fit, and the state fit stops in.
EpochBoundary == pc \in {"fit_train", "fit_summary", "fit_returned", "raised"}

\* The greater of the sentinel and the greatest score seen so far.
BestSoFar == IF hist.max > BestInit THEN hist.max ELSE BestInit

\* C13: at every epoch boundary of fit the stall counter is the number of
\* epochs since the last strict improvement and lies in 0..stop_after_epochs,
\* and the best score is the maximum of the sentinel and the scores seen; over
\* an epoch the best score never decreases; an epoch whose score ties the best
\* takes no snapshot and adds one to the stall counter.
C13_StallCounter ==
    /\ [](EpochBoundary =>
            /\ epochs_since_last_improvement = epochs - hist.best_epoch
            /\ epochs_since_last_improvement >= 0
            /\ epochs_since_last_improvement <= stop_after_epochs
            /\ best_validation_log_prob = BestSoFar)
    /\ [][pc = "fit_validate" =>
            /\ best_validation_log_prob' >= best_validation_log_prob
            /\ LogProbOf(neural_net) = best_validation_log_prob =>
                  /\ best_model_state_dict' = best_model_state_dict
                  /\ best_validation_log_prob' = best_validation_log_prob
                  /\ epochs_since_last_improvement' =
                        epochs_since_last_improvement + 1]_vars

\* An epoch tied the best score with other parameters than the snapshot's.
C13_Witness ==
    /\ pc = "fit_train"
    /\ epochs_since_last_improvement = 1
    /\ hist.best_epoch > 0
    /\ hist.last_net # best_model_state_dict
    /\ LogProbOf(hist.last_net) = best_validation_log_prob

\* The steps of a round, in the order the claim gives them: the parameters are
\* sampled and simulated, appended to the banks, the trainer runs, and the
\* summary is recorded.
RoundOrder ==
    {<<"round", "append">>, <<"append", "append_observations">>,
     <<"append_observations", "call_fit">>, <<"call_fit", "fit_setup">>,
     <<"fit_setup", "fit_train">>, <<"fit_train", "fit_validate">>,
     <<"fit_validate", "fit_train">>, <<"fit_validate", "fit_summary">>,
     <<"fit_summary", "summarize">>, <<"summarize", "round">>}

\* Entering and leaving run, by return or by an exception.
RunBoundary ==
    {<<"idle", "round">>, <<"round", "idle">>, <<"round", "raised">>,
     <<"fit_validate", "raised">>}

InTrainer == pc \in {"fit_train", "fit_validate", "fit_summary"}

\* C14: the steps of a round follow one another in the order sample and
\* simulate, append, train, record; the trainer runs once per round, on the
\* bank that already holds the round's entry and, in the first run, on
\* (round_ + 1) * num_simulations_per_round examples; a round starts only when
\* the summary of every earlier round is recorded.
C14_RoundOrder ==
    /\ [][pc' # pc => <<pc, pc'>> \in RoundOrder \cup RunBoundary]_vars
    /\ [](pc = "append" =>
            /\ pending.n = num_simulations_per_round
            /\ Cardinality(OfThisRun(parameter_bank)) = round_)
    /\ [](pc \in {"call_fit", "fit_setup"} \/ InTrainer =>
            /\ Cardinality(OfThisRun(parameter_bank)) = round_ + 1
            /\ Cardinality(OfThisRun(observation_bank)) = round_ + 1
            /\ Len(summary.epochs) = Len(parameter_bank) - 1
            /\ Len(summary.distances) = Len(parameter_bank) - 1)
    /\ [](InTrainer /\ calls = 1 =>
            num_examples = (round_ + 1) * num_simulations_per_round)
    /\ [](pc = "summarize" =>
            /\ Len(summary.epochs) = Len(parameter_bank)
            /\ Len(summary.distances) = Len(parameter_bank) - 1)
    /\ [](pc = "round" =>
            /\ Len(summary.epochs) = Len(parameter_bank)
            /\ Len(summary.distances) = Len(parameter_bank))

\* The trainer of round 1 of the first run runs on both rounds' examples.
C14_Witness ==
    /\ pc = "fit_validate"
    /\ calls = 1
    /\ round_ = 1
    /\ Len(summary.distances) = 1
    /\ num_examples = 2 * LargeSims

\* The loop of fit was entered and has been left, by the break or by an
\* exception of the restore step.
LoopLeft ==
    \/ pc \in {"fit_summary", "fit_returned"}
    \/ pc = "raised" /\ error = "AttributeError"

\* C15: every training epoch takes floor(T / B) optimizer steps and every
\* validation pass evaluates all V validation examples; when T < B no step is
\* taken, the parameters stay what they were (so the snapshot, once taken, is
\* the live parameters), and fit returns after stop_after_epochs + 1 epochs.
C15_Original ==
    /\ pc = "fit_validate" =>
          /\ hist.steps * batch_size <= num_training_examples
          /\ num_training_examples < (hist.steps + 1) * batch_size
    /\ (pc = "fit_train" /\ epochs > 0) \/ LoopLeft =>
          hist.evaluated = num_validation_examples
    /\ (num_training_examples < batch_size /\ (pc = "fit_validate" \/ LoopLeft)) =>
          /\ hist.steps = 0
          /\ best_model_state_dict # None => best_model_state_dict = neural_net
    /\ (num_training_examples < batch_size /\ LoopLeft) =>
          /\ pc \in {"fit_summary", "fit_returned"}
          /\ epochs = stop_after_epochs + 1

\* C18: whenever the stopping criterion of fit has fired, a snapshot of the
\* parameters has been taken, so the restore step loads a snapshot and never
\* None and raises nothing.
C18_Original ==
    LoopLeft =>
        /\ best_model_state_dict # None
        /\ hist.best_epoch > 0
        /\ error = "none"

C17_FailureAborts ==
    /\ [](error # "none" <=> pc = "raised")
    /\ [][pc # "raised" /\ error = "none"]_vars
    /\ [][pc' = "raised" /\ pc = "round" =>
            /\ parameter_bank' = parameter_bank
            /\ observation_bank' = observation_bank
            /\ summary' = summary]_vars
    /\ [](error = "SimulatorError" =>
            /\ Cardinality(OfThisRun(parameter_bank)) = round_
            /\ Len(observation_bank) = Len(parameter_bank)
            /\ Len(summary.epochs) = Len(parameter_bank)
            /\ Len(summary.best) = Len(parameter_bank)
            /\ Len(summary.distances) = Len(parameter_bank))
    /\ [](error = "AttributeError" =>
            /\ Cardinality(OfThisRun(parameter_bank)) = round_ + 1
            /\ Last(parameter_bank).round = round_
            /\ Len(observation_bank) = Len(parameter_bank)
            /\ Len(summary.epochs) = Len(parameter_bank) - 1
            /\ Len(summary.best) = Len(parameter_bank) - 1
            /\ Len(summary.distances) = Len(parameter_bank) - 1)

\* The trainer failed in round 1, after round 0 was recorded.
C17_Witness ==
    /\ pc = "raised"
    /\ error = "AttributeError"
    /\ round_ = 1
    /\ Len(parameter_bank) = 2
    /\ Len(summary.epochs) = 1

\* The number of examples in the first k entries of a bank.
RECURSIVE Examples(_, _)
Examples(bank, k) == IF k = 0 THEN 0 ELSE bank[k].n + Examples(bank, k - 1)

\* The entries a bank held when the present call of run began.
Before(bank) == {i \in 1..Len(bank) : bank[i].call < calls}

\* C19: a second call of run resets nothing: entering it changes neither the
\* banks, nor the summary, nor the trained parameters; its round index starts
\* at 0 again, so its first round draws from the prior although the estimator
\* is trained; its first fit trains on the examples of both calls; when it
\* returns the banks and the summary hold num_rounds entries more.
C19_SecondCallKeeps ==
    /\ [][pc = "idle" /\ pc' # "idle" =>
            /\ parameter_bank' = parameter_bank
            /\ observation_bank' = observation_bank
            /\ summary' = summary
            /\ neural_net' = neural_net
            /\ round_' = 0]_vars
    /\ [](calls >= 2 =>
            /\ Before(parameter_bank) # {}
            /\ \A i \in Before(parameter_bank) :
                  \A j \in OfThisRun(parameter_bank) : i < j
            /\ \A j \in OfThisRun(parameter_bank) :
                  parameter_bank[j].round = 0 => parameter_bank[j].src = "prior")
    /\ [](calls >= 2 /\ InTrainer /\ round_ = 0 =>
            /\ Len(summary.epochs) = Cardinality(Before(parameter_bank))
            /\ num_examples =
                  Examples(parameter_bank, Cardinality(Before(parameter_bank)))
                     + num_simulations_per_round)
    /\ [](calls >= 2 /\ pc = "idle" =>
            /\ Cardinality(OfThisRun(parameter_bank)) = num_rounds
            /\ Len(parameter_bank) =
                  Cardinality(Before(parameter_bank)) + num_rounds
            /\ Len(observation_bank) = Len(parameter_bank)
            /\ Len(summary.epochs) = Len(parameter_bank)
            /\ Len(summary.best) = Len(parameter_bank))

\* The second call has returned: its only round drew from the prior, and its
\* fit trained on the examples of both calls.
C19_Witness ==
    /\ calls = 2
    /\ pc = "idle"
    /\ Len(parameter_bank) = 2
    /\ parameter_bank[1].call = 1
    /\ parameter_bank[2].call = 2
    /\ parameter_bank[2].src = "prior"
    /\ parameter_bank[1].n # parameter_bank[2].n
    /\ num_examples = parameter_bank[1].n + parameter_bank[2].n
    /\ Len(summary.epochs) = 2

====
